---- MODULE Spec2Model ----
(***************************************************************************)
(* The expect engine of pexpect-mcp: the WinPtySpawn session of            *)
(* src/src/pexpect_mcp/server.py (a pty transport, a background reader     *)
(* thread that appends to the output buffer, and the caller's expect /     *)
(* sendline / send / read / close operations).                            *)
(*                                                                         *)
(* Text is a sequence of one-character strings.  Time is counted in ticks  *)
(* of 5 ms: the expect loop's sleep(0.01) is PollInterval = 2 ticks and    *)
(* its sleep(0.1) pause is GraceInterval = 20 ticks.                       *)
(*                                                                         *)
(* Above the session stands pexpect_tool, the MCP tool that runs the       *)
(* caller's code under a hard timeout, by SIGALRM where the platform has   *)
(* it and on a worker thread elsewhere.  Its time is counted in seconds.   *)
(***************************************************************************)
EXTENDS Integers, Sequences, FiniteSets, TLC

\* ---------------------------------------------------------------- bounds
\* Total number of characters the child process writes to the pty.
MaxProduced == 4
\* Largest timeout argument of an expect call, in ticks.
MaxTimeout == 3
\* Largest timeout argument of a tool call, in seconds.
MaxHard == 3
\* Longest time the code of a tool call runs before it ends, in seconds.
MaxDuration == 3
\* Seconds past its hard timeout for which a tool call is followed.
MaxOverrun == 2

\* ------------------------------------------------------ program constants
\* time.sleep(0.01) of the expect loop, in ticks.
PollInterval == 2
\* time.sleep(0.1) after the liveness check failed, in ticks.
GraceInterval == 20
\* self.proc.read(1): the reader thread reads one character at a time.
ReaderChunk == 1
\* TIMEOUT = 12, the global hard timeout in seconds.  (The source gives this
\* name to the sentinel class first and to the number afterwards.)
GLOBAL_TIMEOUT == 12
\* DEFAULT_PEXPECT_TIMEOUT = TIMEOUT - 2
DEFAULT_PEXPECT_TIMEOUT == GLOBAL_TIMEOUT - 2

\* ------------------------------------------------------------- characters
CR == "\r"
LF == "\n"
DOT == "."
\* Characters the child process writes by itself.
Alphabet == {"b"}

\* ---------------------------------------------------------------- patterns
\* class EOF / class TIMEOUT sentinels, and str patterns (regular expressions
\* restricted to literal characters and the wildcard ".").
EOF == [kind |-> "EOF", re |-> <<>>]
TIMEOUT == [kind |-> "TIMEOUT", re |-> <<>>]
Text(s) == [kind |-> "text", re |-> s]

\* Pattern lists an expect call is given (a single pattern is a list of one).
PatternLists ==
    { <<>>,
      <<EOF>>,
      <<Text(<<"a", "b">>)>>,
      <<Text(<<"b">>), Text(<<"a">>)>>,
      <<Text(<<DOT, CR>>), EOF>>,
      <<TIMEOUT, Text(<<DOT, CR>>), EOF>>,
      <<Text(<<"b">>), TIMEOUT, Text(<<"a">>)>> }

\* Texts given to sendline, and to send.
SendlineTexts == {<<"a", "b">>}
SendTexts == {<<"b">>}

\* Durations given to expect as timeout, in ticks (timeout=None stands for
\* self.timeout, one more such duration).
Timeouts == 0..MaxTimeout

Min(S) == CHOOSE x \in S : \A y \in S : x <= y

VARIABLES
    buffer,       \* self.buffer
    before,       \* self.before
    after,        \* self.after (the matched text)
    stop_reader,  \* self._stop_reader
    lock,         \* holder of self._lock: "free", "reader" or "caller"
    alive,        \* self.proc.isalive()
    ptyClosed,    \* self.proc.close() has been called
    pipe,         \* characters written by the process, not yet read from the pty
    produced,     \* history: every character the process has written
    lastAppended, \* history: position in produced of the last character appended
    consumed,     \* history: text removed from buffer by matches and EOF drains
    rpc,          \* reader thread: position in reader()
    rdata,        \* reader thread: data returned by proc.read(1)
    rpos,         \* history: position in produced of the last character of rdata
    cpc,          \* caller: position in the current operation
    patterns,     \* expect: the pattern list
    timeout,      \* expect: the timeout of the call
    elapsed,      \* expect: time.time() - start_time
    outcome       \* result of the caller's operation: "none" while it runs

\* The tool layer, pexpect_tool, which runs the caller's code against the
\* session under a hard timeout counted in seconds.
VARIABLES
    has_sigalrm,     \* HAS_SIGALRM: the platform has the alarm signal
    handler,         \* the handler installed for SIGALRM
    old_handler,     \* pexpect_tool: old_handler
    alarm,           \* seconds until the pending alarm is due, -1 when none
    tpc,             \* position of the main thread in pexpect_tool
    code,            \* pexpect_tool: the code argument
    actual_timeout,  \* pexpect_tool: actual_timeout
    now,             \* seconds since the tool call started
    remaining,       \* seconds the code still needs before it ends by itself
    worker,          \* state of the executor's worker thread
    response,        \* what the last tool call returned
    pexpect_session, \* the global pexpect_session
    session_timeout  \* pexpect_session.timeout

toolVars == <<has_sigalrm, handler, old_handler, alarm, tpc, code,
              actual_timeout, now, remaining, worker, response,
              pexpect_session, session_timeout>>

sessionVars == <<buffer, before, after, stop_reader, lock, alive, ptyClosed,
                 pipe, produced, lastAppended, consumed, rpc, rdata, rpos, cpc,
                 patterns, timeout, elapsed, outcome>>

vars == <<sessionVars, toolVars>>

session == <<buffer, before, after, stop_reader, lock>>
transport == <<alive, ptyClosed, pipe, produced>>
readerVars == <<rpc, rdata, rpos>>
callVars == <<patterns, timeout, elapsed>>

\* What an operation ends with: an index returned by expect (from 0, as
\* enumerate counts), or a kind of failure or plain return without one.
Returned(i) == [kind |-> "index", idx |-> i]
Ended(k) == [kind |-> k, idx |-> -1]

\* WinPtySpawn.__init__: the process is spawned, the buffers are empty and the
\* reader thread has been started.
Spawned ==
    /\ buffer = <<>>
    /\ before = <<>>
    /\ after = <<>>
    /\ stop_reader = FALSE
    /\ lock = "free"
    /\ alive = TRUE
    /\ ptyClosed = FALSE
    /\ pipe = <<>>
    /\ produced = <<>>
    /\ lastAppended = 0
    /\ consumed = <<>>
    /\ rpc = "r_loop"
    /\ rdata = <<>>
    /\ rpos = 0
    /\ cpc = "idle"
    /\ patterns = <<>>
    /\ timeout = 0
    /\ elapsed = 0
    /\ outcome = Ended("none")

\* ------------------------------------------------------------ pure parts
\* One pattern character against one buffer character: "." matches any
\* character except a newline (re without DOTALL), any other pattern
\* character matches itself.
CharMatches(q, c) == IF q = DOT THEN c # LF ELSE q = c

\* Whether the pattern re matches the span of s that starts at position i.
MatchesAt(re, s, i) ==
    /\ i >= 1
    /\ i + Len(re) - 1 <= Len(s)
    /\ \A j \in 1..Len(re) : CharMatches(re[j], s[i + j - 1])

\* re.search(p, self.buffer): the start (from 1) of the leftmost match, 0 when
\* there is none.  The empty pattern matches the empty span at the start.
SearchStart(re, s) ==
    LET starts == {i \in 1..(Len(s) + 1) : MatchesAt(re, s, i)}
    IN  IF starts = {} THEN 0 ELSE Min(starts)

\* match.end() as a count of characters: the match is s[start .. MatchEnd].
MatchEnd(re, s) == SearchStart(re, s) + Len(re) - 1

\* The for loop of the scan pass from index i (from 1): EOF and TIMEOUT are
\* skipped, the first str pattern for which re.search succeeds is returned;
\* 0 when the loop ends without a match.  (When expect runs, the name TIMEOUT
\* of the comparison denotes the number of line 183; the sentinel class is
\* passed over all the same, by isinstance(p, str).)
RECURSIVE ScanFrom(_, _, _)
ScanFrom(ps, s, i) ==
    IF i > Len(ps) THEN 0
    ELSE IF ps[i].kind = "EOF" THEN ScanFrom(ps, s, i + 1)
    ELSE IF ps[i].kind = "TIMEOUT" THEN ScanFrom(ps, s, i + 1)
    ELSE IF SearchStart(ps[i].re, s) > 0 THEN i
    ELSE ScanFrom(ps, s, i + 1)

\* A scan that lets the match nearest the start of the buffer win, whatever
\* the index of its pattern.
FirstMatch_ByPosition(ps, s) ==
    LET hits == {i \in 1..Len(ps) :
                    ps[i].kind = "text" /\ SearchStart(ps[i].re, s) > 0}
    IN  IF hits = {} THEN 0
        ELSE CHOOSE i \in hits :
                \A j \in hits :
                    \/ SearchStart(ps[i].re, s) < SearchStart(ps[j].re, s)
                    \/ /\ SearchStart(ps[i].re, s) = SearchStart(ps[j].re, s)
                       /\ i <= j

FirstMatch(ps, s) == ScanFrom(ps, s, 1)

\* for i, p in enumerate(patterns): if p is EOF or p == EOF: the first index
\* (from 1) holding the EOF sentinel, 0 when there is none.
RECURSIVE EOFFrom(_, _)
EOFFrom(ps, i) ==
    IF i > Len(ps) THEN 0
    ELSE IF ps[i].kind = "EOF" THEN i
    ELSE EOFFrom(ps, i + 1)

EOFIndex(ps) == EOFFrom(ps, 1)

\* The three pieces a successful match cuts the buffer into.
BeforeOf(re, s) == SubSeq(s, 1, SearchStart(re, s) - 1)
MatchedOf(re, s) == SubSeq(s, SearchStart(re, s), MatchEnd(re, s))
\* A cut that keeps the matched text in the buffer: buffer[match.start():].
RestOf_FromStart(re, s) == SubSeq(s, SearchStart(re, s), Len(s))

RestOf(re, s) == SubSeq(s, MatchEnd(re, s) + 1, Len(s))

\* A deadline check that fires one poll interval early.
DeadlineReached_Early(e, t) == e + PollInterval >= t

\* if elapsed >= timeout
DeadlineReached(e, t) == e >= t

\* text + "\r\n"
WithLineEnd(text) == text \o <<CR, LF>>

\* -------------------------------------------------------------- transport
\* The child process writes one character to the pty.
Produce(c) ==
    /\ alive
    /\ Len(produced) < MaxProduced
    /\ pipe' = Append(pipe, c)
    /\ produced' = Append(produced, c)
    /\ UNCHANGED <<alive, ptyClosed, session, lastAppended, consumed,
                   readerVars, cpc, callVars, outcome, toolVars>>

\* The child process exits by itself: proc.isalive() is False from now on.
Exit ==
    /\ alive
    /\ alive' = FALSE
    /\ UNCHANGED <<ptyClosed, pipe, produced, session, lastAppended, consumed,
                   readerVars, cpc, callVars, outcome, toolVars>>

\* proc.read(n) on a pty that has data: the first n characters at most.
Taken(n) == SubSeq(pipe, 1, IF n < Len(pipe) THEN n ELSE Len(pipe))
Left(n) == SubSeq(pipe, Len(Taken(n)) + 1, Len(pipe))

\* ---------------------------------------------------------- reader thread
\* while not self._stop_reader and self.proc.isalive():
ReaderLoop ==
    /\ rpc = "r_loop"
    /\ rpc' = IF ~stop_reader /\ alive THEN "r_read" ELSE "r_done"
    /\ UNCHANGED <<session, transport, lastAppended, consumed, rdata, rpos,
                   cpc, callVars, outcome, toolVars>>

\* data = self.proc.read(1).  A closed pty, or a dead process with nothing
\* left, raises and the except clause leaves the loop; an empty pty of a live
\* process returns nothing, and the loop sleeps (time.sleep(0.001)) and goes
\* round.
ReaderRead ==
    /\ rpc = "r_read"
    /\ IF ptyClosed \/ (pipe = <<>> /\ ~alive)
       THEN /\ rpc' = "r_done"
            /\ UNCHANGED <<rdata, rpos, pipe>>
       ELSE IF pipe = <<>>
       THEN /\ rpc' = "r_loop"
            /\ rdata' = <<>>
            /\ UNCHANGED <<rpos, pipe>>
       ELSE /\ rpc' = "r_lock"
            /\ rdata' = Taken(ReaderChunk)
            /\ rpos' = Len(produced) - Len(Left(ReaderChunk))
            /\ pipe' = Left(ReaderChunk)
    /\ UNCHANGED <<session, alive, ptyClosed, produced, lastAppended,
                   consumed, cpc, callVars, outcome, toolVars>>

\* An entry into the critical section that does not wait for the lock.
ReaderAcquire_NoWait ==
    /\ rpc = "r_lock"
    /\ lock' = "reader"
    /\ rpc' = "r_append"
    /\ UNCHANGED <<buffer, before, after, stop_reader, transport,
                   lastAppended, consumed, rdata, rpos, cpc, callVars,
                   outcome, toolVars>>

\* with self._lock:  (entered when the lock is free)
ReaderAcquire ==
    /\ rpc = "r_lock"
    /\ lock = "free"
    /\ lock' = "reader"
    /\ rpc' = "r_append"
    /\ UNCHANGED <<buffer, before, after, stop_reader, transport,
                   lastAppended, consumed, rdata, rpos, cpc, callVars,
                   outcome, toolVars>>

\* An append at the wrong end of the buffer.
Appended_AtFront(buf, data) == data \o buf

\* self.buffer += data
Appended(buf, data) == buf \o data

\* An append that leaves its critical section without releasing the lock.
ReaderAppend_KeepLock ==
    /\ rpc = "r_append"
    /\ buffer' = Appended(buffer, rdata)
    /\ lastAppended' = rpos
    /\ rpc' = "r_loop"
    /\ UNCHANGED <<lock, before, after, stop_reader, transport, consumed,
                   rdata, rpos, cpc, callVars, outcome, toolVars>>

\* The append under the lock; the lock is released, the loop sleeps
\* (time.sleep(0.001)) and goes round.
ReaderAppend ==
    /\ rpc = "r_append"
    /\ buffer' = Appended(buffer, rdata)
    /\ lastAppended' = rpos
    /\ lock' = "free"
    /\ rpc' = "r_loop"
    /\ UNCHANGED <<before, after, stop_reader, transport, consumed, rdata,
                   rpos, cpc, callVars, outcome, toolVars>>

Reader == ReaderLoop \/ ReaderRead \/ ReaderAcquire \/ ReaderAppend

\* ------------------------------------------------------------------ expect
Pending == Ended("none")

\* Top of the while loop: elapsed = time.time() - start_time and the deadline
\* check, which lead to the timeout path or to the liveness check.
LoopTop(e, t) == IF DeadlineReached(e, t) THEN "e_timeout_lock" ELSE "e_alive"

\* Entry of expect(pattern, timeout): the pattern list is taken as given,
\* start_time = time.time(), and the loop is entered.
ExpectCall(ps, t) ==
    /\ cpc = "idle"
    /\ patterns' = ps
    /\ timeout' = t
    /\ elapsed' = 0
    /\ outcome' = Pending
    /\ cpc' = LoopTop(0, t)
    /\ UNCHANGED <<session, transport, lastAppended, consumed, readerVars,
                   toolVars>>

\* The critical section each "with self._lock:" of expect leads to.
LockedSection(pc) ==
    CASE pc = "e_timeout_lock" -> "e_timeout"
      [] pc = "e_eof_lock" -> "e_eof"
      [] pc = "e_eos_lock" -> "e_eos"
      [] pc = "e_scan_lock" -> "e_scan"

\* with self._lock:  (entered when the lock is free)
ExpectAcquire ==
    /\ cpc \in {"e_timeout_lock", "e_eof_lock", "e_eos_lock", "e_scan_lock"}
    /\ lock = "free"
    /\ lock' = "caller"
    /\ cpc' = LockedSection(cpc)
    /\ UNCHANGED <<buffer, before, after, stop_reader, transport,
                   lastAppended, consumed, readerVars, callVars, outcome,
                   toolVars>>

\* A deadline that returns the index of the TIMEOUT marker when the list
\* holds one, and raises only when it holds none.
ExpectTimeout_ReturnsMarker ==
    /\ cpc = "e_timeout"
    /\ lock' = "free"
    /\ LET markers == {i \in 1..Len(patterns) : patterns[i].kind = "TIMEOUT"}
       IN  outcome' = IF markers = {} THEN Ended("Timeout")
                      ELSE Returned(Min(markers) - 1)
    /\ cpc' = "idle"
    /\ UNCHANGED <<buffer, before, after, stop_reader, transport,
                   lastAppended, consumed, readerVars, callVars, toolVars>>

\* buf_snapshot = self.buffer[:500]; raise TimeoutError(...)
ExpectTimeout ==
    /\ cpc = "e_timeout"
    /\ lock' = "free"
    /\ outcome' = Ended("Timeout")
    /\ cpc' = "idle"
    /\ UNCHANGED <<buffer, before, after, stop_reader, transport,
                   lastAppended, consumed, readerVars, callVars, toolVars>>

\* An end path without the raise: with no EOF sentinel in the list the loop
\* falls through to the scan pass and polls on.
EndPath_FallThrough(ps) ==
    IF EOFIndex(ps) > 0 THEN "e_eof_lock" ELSE "e_scan_lock"

\* Where the loop goes once proc.isalive() is False: to the EOF return when
\* the list holds the EOF sentinel, to the EOFError otherwise.
EndPath(ps) == IF EOFIndex(ps) > 0 THEN "e_eof_lock" ELSE "e_eos_lock"

\* if not self.proc.isalive(): time.sleep(0.1) and the search of the list for
\* the EOF sentinel; otherwise on to the scan pass.
ExpectAlive ==
    /\ cpc = "e_alive"
    /\ IF ~alive
       THEN /\ elapsed' = elapsed + GraceInterval
            /\ cpc' = EndPath(patterns)
       ELSE /\ cpc' = "e_scan_lock"
            /\ UNCHANGED elapsed
    /\ UNCHANGED <<session, transport, lastAppended, consumed, readerVars,
                   patterns, timeout, outcome, toolVars>>

\* An EOF return that hands the buffer over without clearing it.
ExpectEofDrain_KeepBuffer ==
    /\ cpc = "e_eof"
    /\ before' = buffer
    /\ after' = <<>>
    /\ lock' = "free"
    /\ outcome' = Returned(EOFIndex(patterns) - 1)
    /\ cpc' = "idle"
    /\ UNCHANGED <<buffer, consumed, stop_reader, transport, lastAppended,
                   readerVars, callVars, toolVars>>

\* self.before = self.buffer; self.after = ""; self.buffer = ""; return i
ExpectEofDrain ==
    /\ cpc = "e_eof"
    /\ before' = buffer
    /\ after' = <<>>
    /\ buffer' = <<>>
    /\ consumed' = consumed \o buffer
    /\ lock' = "free"
    /\ outcome' = Returned(EOFIndex(patterns) - 1)
    /\ cpc' = "idle"
    /\ UNCHANGED <<stop_reader, transport, lastAppended, readerVars, callVars,
                   toolVars>>

\* An EOFError that hands the buffer over to before and clears it, as the
\* EOF return does.
ExpectEndOfStream_Drain ==
    /\ cpc = "e_eos"
    /\ before' = buffer
    /\ after' = <<>>
    /\ buffer' = <<>>
    /\ consumed' = consumed \o buffer
    /\ lock' = "free"
    /\ outcome' = Ended("EndOfStream")
    /\ cpc' = "idle"
    /\ UNCHANGED <<stop_reader, transport, lastAppended, readerVars, callVars,
                   toolVars>>

\* buf_snapshot = self.buffer; raise EOFError(...)
ExpectEndOfStream ==
    /\ cpc = "e_eos"
    /\ lock' = "free"
    /\ outcome' = Ended("EndOfStream")
    /\ cpc' = "idle"
    /\ UNCHANGED <<buffer, before, after, stop_reader, transport,
                   lastAppended, consumed, readerVars, callVars, toolVars>>

\* The scan pass under the lock: the first str pattern that matches cuts the
\* buffer and returns its index.  Without a match the lock is released, the
\* loop sleeps (time.sleep(0.01)) and comes back to its top.
ExpectScan ==
    /\ cpc = "e_scan"
    /\ lock' = "free"
    /\ LET k == FirstMatch(patterns, buffer)
       IN  IF k > 0
           THEN /\ before' = BeforeOf(patterns[k].re, buffer)
                /\ after' = MatchedOf(patterns[k].re, buffer)
                /\ buffer' = RestOf(patterns[k].re, buffer)
                /\ consumed' = consumed \o BeforeOf(patterns[k].re, buffer)
                                        \o MatchedOf(patterns[k].re, buffer)
                /\ outcome' = Returned(k - 1)
                /\ cpc' = "idle"
                /\ UNCHANGED elapsed
           ELSE /\ elapsed' = elapsed + PollInterval
                /\ cpc' = LoopTop(elapsed + PollInterval, timeout)
                /\ UNCHANGED <<buffer, before, after, consumed, outcome>>
    /\ UNCHANGED <<stop_reader, transport, lastAppended, readerVars, patterns,
                   timeout, toolVars>>

Expect ==
    \/ \E ps \in PatternLists, t \in Timeouts : ExpectCall(ps, t)
    \/ ExpectAcquire \/ ExpectTimeout \/ ExpectAlive
    \/ ExpectEofDrain \/ ExpectEndOfStream \/ ExpectScan

\* ------------------------------------------------- sendline, send and read
\* The other operations have no pattern list and no deadline.
NoCall == /\ patterns' = <<>>
          /\ timeout' = 0
          /\ elapsed' = 0

\* self.proc.write(data).  A live process either echoes what it receives or
\* keeps silent; a closed pty raises; a pty whose process has exited either
\* raises or discards the data.
Write(data) ==
    /\ cpc = "idle"
    /\ NoCall
    /\ \/ /\ alive
          /\ \E echo \in BOOLEAN :
                IF echo
                THEN /\ Len(produced) + Len(data) <= MaxProduced
                     /\ pipe' = pipe \o data
                     /\ produced' = produced \o data
                ELSE UNCHANGED <<pipe, produced>>
          /\ outcome' = Ended("ok")
       \/ /\ ~alive
          /\ ~ptyClosed
          /\ outcome' = Ended("ok")
          /\ UNCHANGED <<pipe, produced>>
       \/ /\ ~alive
          /\ outcome' = Ended("TransportError")
          /\ UNCHANGED <<pipe, produced>>
    /\ UNCHANGED <<session, alive, ptyClosed, lastAppended, consumed,
                   readerVars, cpc, toolVars>>

\* sendline(text): self.proc.write(text + "\r\n")
Sendline(text) == Write(WithLineEnd(text))

\* send(text): self.proc.write(text)
Send(text) == Write(text)

\* Sizes given to read: -1 (everything available) or a count of characters.
ReadSizes == {-1, 1}

\* read(size): self.proc.read() or self.proc.read(size), straight from the
\* pty.  A closed pty, or a dead process with nothing left, raises.
Read(size) ==
    /\ cpc = "idle"
    /\ NoCall
    /\ IF ptyClosed \/ (pipe = <<>> /\ ~alive)
       THEN /\ outcome' = Ended("TransportError")
            /\ UNCHANGED pipe
       ELSE /\ outcome' = Ended("data")
            /\ pipe' = Left(IF size = -1 THEN Len(pipe) ELSE size)
    /\ UNCHANGED <<session, alive, ptyClosed, produced, lastAppended,
                   consumed, readerVars, cpc, toolVars>>

\* ------------------------------------------------------------------- close
\* self._stop_reader = True
CloseStop ==
    /\ cpc = "idle"
    /\ NoCall
    /\ stop_reader' = TRUE
    /\ outcome' = Pending
    /\ cpc' = "c_join"
    /\ UNCHANGED <<buffer, before, after, lock, transport, lastAppended,
                   consumed, readerVars, toolVars>>

\* self._reader_thread.join(timeout=1): returns when the reader thread has
\* ended or when the second has passed, whichever comes first.
CloseJoin ==
    /\ cpc = "c_join"
    /\ cpc' = "c_proc"
    /\ UNCHANGED <<session, transport, lastAppended, consumed, readerVars,
                   callVars, outcome, toolVars>>

\* A close without the try / except around proc.close(): the error of a pty
\* that is already closed reaches the caller.
CloseProc_NoCatch ==
    /\ cpc = "c_proc"
    /\ alive' = FALSE
    /\ ptyClosed' = TRUE
    /\ outcome' = IF ptyClosed THEN Ended("TransportError") ELSE Ended("ok")
    /\ cpc' = "idle"
    /\ UNCHANGED <<session, pipe, produced, lastAppended, consumed,
                   readerVars, callVars, toolVars>>

\* try: self.proc.close() / except: pass.  The process is terminated and the
\* pty released; an error of a pty that is already closed is swallowed.
CloseProc ==
    /\ cpc = "c_proc"
    /\ alive' = FALSE
    /\ ptyClosed' = TRUE
    /\ outcome' = Ended("ok")
    /\ cpc' = "idle"
    /\ UNCHANGED <<session, pipe, produced, lastAppended, consumed,
                   readerVars, callVars, toolVars>>

Close == CloseStop \/ CloseJoin \/ CloseProc

\* -------------------------------------------------------------- tool layer
\* The code argument: an expression (eval succeeds) or statements (eval
\* raises SyntaxError and exec runs them); it ends by itself after duration
\* seconds or never; when it ends it returns or raises; it may bind child to
\* a session it spawned.
Codes ==
    [syntax : {"expression", "statements"},
     ends : BOOLEAN,
     duration : 0..MaxDuration,
     raises : BOOLEAN,
     spawns : BOOLEAN]

\* The timeout argument: None, or a number of seconds.
HardArgs ==
    {[given |-> FALSE, value |-> 0]}
        \cup {[given |-> TRUE, value |-> t] : t \in 0..MaxHard}

\* actual_timeout = timeout if timeout is not None else TIMEOUT
ActualTimeout(arg) == IF arg.given THEN arg.value ELSE GLOBAL_TIMEOUT

\* pexpect_timeout =
\*     min(actual_timeout - 2, DEFAULT_PEXPECT_TIMEOUT) if actual_timeout > 2 else 1
PexpectTimeout(t) ==
    IF t > 2 THEN Min({t - 2, DEFAULT_PEXPECT_TIMEOUT}) ELSE 1

\* The responses that tell of a timeout: "Timeout Error: ..." of the two
\* timeout clauses, and "Error: Operation timed out ..." when the clause
\* around exec catches the handler's TimeoutError as an Exception.
TimeoutResponses == {"Timeout Error", "Error: Operation timed out"}

\* The server before its first tool call: no handler of its own, no alarm,
\* no session.
ServerStart ==
    /\ handler = "SIG_DFL"
    /\ old_handler = "SIG_DFL"
    /\ alarm = -1
    /\ tpc = "idle"
    /\ code = [syntax |-> "expression", ends |-> TRUE, duration |-> 0,
               raises |-> FALSE, spawns |-> FALSE]
    /\ actual_timeout = 0
    /\ now = 0
    /\ remaining = 0
    /\ worker = "none"
    /\ response = "none"
    /\ pexpect_session = "None"
    /\ session_timeout = 0

\* signal.alarm(seconds): the alarm is due in that many seconds; with zero
\* seconds none is scheduled and a pending one is cancelled.
Armed(seconds) == IF seconds > 0 THEN seconds ELSE -1

\* if not code: return "No code provided"
ToolCallNoCode ==
    /\ tpc = "idle"
    /\ response' = "No code provided"
    /\ UNCHANGED <<sessionVars, has_sigalrm, handler, old_handler, alarm, tpc,
                   code, actual_timeout, now, remaining, worker,
                   pexpect_session, session_timeout>>

\* pexpect_tool(code, timeout) up to the start of the code: the timeouts are
\* computed, a session that exists gets its default timeout, and either the
\* handler is installed, the alarm armed and eval entered, or the code is
\* submitted to the executor's worker and the main thread waits for it.
ToolCall(c, arg) ==
    /\ tpc = "idle"
    /\ code' = c
    /\ actual_timeout' = ActualTimeout(arg)
    /\ session_timeout' = IF pexpect_session # "None"
                          THEN PexpectTimeout(ActualTimeout(arg))
                          ELSE session_timeout
    /\ now' = 0
    /\ remaining' = IF c.ends THEN c.duration ELSE 1
    /\ response' = "none"
    /\ IF has_sigalrm
       THEN /\ old_handler' = handler
            /\ handler' = "timeout_handler"
            /\ alarm' = Armed(ActualTimeout(arg))
            /\ tpc' = IF c.syntax = "expression" THEN "t_eval" ELSE "t_exec"
            /\ UNCHANGED worker
       ELSE /\ worker' = "running"
            /\ tpc' = "w_result"
            /\ UNCHANGED <<handler, old_handler, alarm>>
    /\ UNCHANGED <<sessionVars, has_sigalrm, pexpect_session>>

\* _update_globals(local_vars, pexpect_timeout): a child bound by the code,
\* or kept from earlier calls, is the session and gets the default timeout.
UpdateGlobals ==
    IF code.spawns \/ pexpect_session # "None"
    THEN /\ pexpect_session' = "child"
         /\ session_timeout' = PexpectTimeout(actual_timeout)
    ELSE UNCHANGED <<pexpect_session, session_timeout>>

\* What the code that has ended gives: its error, or its result.
CodeResponse ==
    IF code.raises THEN "Error"
    ELSE IF code.syntax = "expression" THEN "result"
    ELSE "Code executed successfully"

\* eval(code) or exec(code) in the main thread ends by itself: the globals
\* are updated and the response is formatted, or the error is; then the
\* finally clause is entered.
CodeEnds ==
    /\ tpc \in {"t_eval", "t_exec"}
    /\ remaining = 0
    /\ IF code.raises
       THEN UNCHANGED <<pexpect_session, session_timeout>>
       ELSE UpdateGlobals
    /\ response' = CodeResponse
    /\ tpc' = "t_finally"
    /\ UNCHANGED <<sessionVars, has_sigalrm, handler, old_handler, alarm, code,
                   actual_timeout, now, remaining, worker>>

\* finally: signal.alarm(0); signal.signal(signal.SIGALRM, old_handler), and
\* the response is returned.
Finally ==
    /\ tpc = "t_finally"
    /\ alarm' = Armed(0)
    /\ handler' = old_handler
    /\ tpc' = "idle"
    /\ UNCHANGED <<sessionVars, has_sigalrm, old_handler, code, actual_timeout,
                   now, remaining, worker, response, pexpect_session,
                   session_timeout>>

\* The pending alarm is due: SIGALRM is delivered to the main thread and
\* timeout_handler raises TimeoutError where the thread is.  Inside eval the
\* clause "except TimeoutError" formats it; inside exec the inner clause
\* "except Exception" does, TimeoutError being an Exception; in both cases
\* the finally clause follows.  Inside the finally clause, before the alarm
\* is cancelled or before the handler is restored, the error leaves the
\* clause and the function.
AlarmFires ==
    /\ alarm = 0
    /\ handler = "timeout_handler"
    /\ alarm' = -1
    /\ IF tpc = "t_eval"
       THEN /\ response' = "Timeout Error"
            /\ tpc' = "t_finally"
       ELSE IF tpc = "t_exec"
       THEN /\ response' = "Error: Operation timed out"
            /\ tpc' = "t_finally"
       ELSE /\ tpc = "t_finally"
            /\ response' = "TimeoutError raised"
            /\ tpc' = "idle"
    /\ UNCHANGED <<sessionVars, has_sigalrm, handler, old_handler, code,
                   actual_timeout, now, remaining, worker, pexpect_session,
                   session_timeout>>

\* execute_code on the executor's worker thread ends by itself: it has
\* updated the globals and holds the response, or it holds the error.
WorkerEnds ==
    /\ worker = "running"
    /\ remaining = 0
    /\ IF code.raises
       THEN /\ worker' = "raised"
            /\ UNCHANGED <<pexpect_session, session_timeout>>
       ELSE /\ worker' = "returned"
            /\ UpdateGlobals
    /\ UNCHANGED <<sessionVars, has_sigalrm, handler, old_handler, alarm, tpc,
                   code, actual_timeout, now, remaining, response>>

\* future.result(timeout=actual_timeout): the worker's response or error
\* once the worker has ended, FuturesTimeoutError once actual_timeout seconds
\* have passed without that; the matching except clause formats the error.
\* The with block is left on either way.
FutureResult ==
    /\ tpc = "w_result"
    /\ IF worker # "running"
       THEN response' = CodeResponse
       ELSE /\ now >= actual_timeout
            /\ response' = "Timeout Error"
    /\ tpc' = "w_exit"
    /\ UNCHANGED <<sessionVars, has_sigalrm, handler, old_handler, alarm, code,
                   actual_timeout, now, remaining, worker, pexpect_session,
                   session_timeout>>

\* Leaving "with ThreadPoolExecutor(max_workers=1) as executor": __exit__
\* calls shutdown(wait=True), which returns when the worker thread has
\* ended; then the response is returned.
ExecutorExit ==
    /\ tpc = "w_exit"
    /\ worker # "running"
    /\ worker' = "none"
    /\ tpc' = "idle"
    /\ UNCHANGED <<sessionVars, has_sigalrm, handler, old_handler, alarm, code,
                   actual_timeout, now, remaining, response, pexpect_session,
                   session_timeout>>

\* A second passes while the code runs and no thread has a step to take:
\* the code is a second nearer its end, the alarm a second nearer being due.
Tick ==
    /\ tpc # "idle"
    /\ alarm # 0
    /\ remaining > 0
    /\ tpc = "w_result" => now < actual_timeout
    /\ now < actual_timeout + MaxOverrun
    /\ now' = now + 1
    /\ remaining' = IF code.ends THEN remaining - 1 ELSE remaining
    /\ alarm' = IF alarm > 0 THEN alarm - 1 ELSE alarm
    /\ UNCHANGED <<sessionVars, has_sigalrm, handler, old_handler, tpc, code,
                   actual_timeout, worker, response, pexpect_session,
                   session_timeout>>

\* ------------------------------------------------------------ specification
\* The session of one spawned process; it exists as WinPtySpawn where the
\* platform has no alarm signal, and the tool layer is at rest.
Init ==
    /\ Spawned
    /\ has_sigalrm = FALSE
    /\ ServerStart

Next ==
    \/ \E c \in Alphabet : Produce(c)
    \/ Exit
    \/ Reader
    \/ Expect
    \/ \E text \in SendlineTexts : Sendline(text)
    \/ \E text \in SendTexts : Send(text)
    \/ Close

\* The session driven through the engine: expect, sendline, send and close.
Spec == Init /\ [][Next]_vars

\* read() takes characters from the pty directly, past the reader thread and
\* the buffer: the sessions whose caller also uses it.
NextDirect ==
    \/ Next
    \/ \E size \in ReadSizes : Read(size)

SpecDirect == Init /\ [][NextDirect]_vars

\* The expect calls of a session against whatever the transport does (stay
\* silent, write, exit), with the threads scheduled fairly: a thread inside
\* a critical section leaves it, the caller's thread takes the steps open
\* to it, and a thread that finds the lock free again and again gets it.
LivePatternLists ==
    { <<EOF>>,
      <<Text(<<"a", "b">>)>>,
      <<Text(<<"b">>), TIMEOUT, Text(<<"a">>)>> }

NextLive ==
    \/ \E c \in Alphabet : Produce(c)
    \/ Exit
    \/ Reader
    \/ \E ps \in LivePatternLists, t \in Timeouts : ExpectCall(ps, t)
    \/ ExpectAcquire \/ ExpectTimeout \/ ExpectAlive
    \/ ExpectEofDrain \/ ExpectEndOfStream \/ ExpectScan

Fairness ==
    /\ WF_vars(ReaderAppend)
    /\ SF_vars(ExpectAcquire)
    /\ WF_vars(ExpectTimeout \/ ExpectAlive \/ ExpectEofDrain
                  \/ ExpectEndOfStream \/ ExpectScan)

SpecLive == Init /\ [][NextLive]_vars /\ Fairness

\* The server on either platform, taking tool calls one after the other.
InitTool ==
    /\ Spawned
    /\ has_sigalrm \in BOOLEAN
    /\ ServerStart

NextTool ==
    \/ ToolCallNoCode
    \/ \E c \in Codes, arg \in HardArgs : ToolCall(c, arg)
    \/ CodeEnds
    \/ Finally
    \/ AlarmFires
    \/ WorkerEnds
    \/ FutureResult
    \/ ExecutorExit
    \/ Tick

SpecTool == InitTool /\ [][NextTool]_vars

\* ------------------------------------------------------------------ claims
IsText(p) == p.kind = "text"
IsEOF(p) == p.kind = "EOF"

\* The positions of s at which a span matching re starts.
MatchStarts(re, s) == {i \in 1..(Len(s) + 1) : MatchesAt(re, s, i)}

\* The indices (from 1) of the text patterns of ps that have a match in s.
Satisfied(ps, s) ==
    {k \in 1..Len(ps) : IsText(ps[k]) /\ MatchStarts(ps[k].re, s) # {}}

\* The caller takes the step that ends the scan pass it is in.
ScanStep == cpc = "e_scan" /\ cpc' # "e_scan"

\* C1: when the scan pass of an expect call runs on a buffer in which the
\* text pattern at index k has a match and no pattern declared before k has
\* one, the call returns k, before is the buffer up to the start of the
\* leftmost match, the matched text is exactly the matched span, and the
\* buffer left is the suffix after the match: before, matched text and the
\* new buffer put together are the old buffer.
C1_MatchSplit ==
    [][ScanStep =>
        \A k \in 1..Len(patterns) :
            (k \in Satisfied(patterns, buffer)
             /\ \A j \in 1..(k - 1) : j \notin Satisfied(patterns, buffer))
            => LET re == patterns[k].re
                   i == Min(MatchStarts(re, buffer))
               IN  /\ outcome' = Returned(k - 1)
                   /\ cpc' = "idle"
                   /\ before' = SubSeq(buffer, 1, i - 1)
                   /\ after' = SubSeq(buffer, i, i + Len(re) - 1)
                   /\ buffer' = SubSeq(buffer, i + Len(re), Len(buffer))
                   /\ before' \o after' \o buffer' = buffer
                   /\ MatchesAt(re, after', 1)
       ]_vars

\* A call has returned index 1 of a list whose index 0 is a marker, cutting
\* "ab\r\n" into before "a", matched text "b\r" and buffer "\n".
C1_Witness ==
    /\ cpc = "idle"
    /\ patterns = <<TIMEOUT, Text(<<DOT, CR>>), EOF>>
    /\ outcome = Returned(1)
    /\ before = <<"a">>
    /\ after = <<"b", CR>>
    /\ buffer = <<LF>>

\* C2: when several text patterns have a match in the buffer in one scan
\* pass, the call returns the lowest index among them, wherever their matches
\* lie in the buffer; EOF and TIMEOUT markers never win a scan pass and do
\* not change which text pattern does; a pass in which no text pattern has a
\* match returns nothing.
C2_LowestIndexWins ==
    [][ScanStep =>
        IF Satisfied(patterns, buffer) # {}
        THEN /\ outcome' = Returned(Min(Satisfied(patterns, buffer)) - 1)
             /\ IsText(patterns[outcome'.idx + 1])
        ELSE /\ outcome' = Pending
             /\ cpc' # "idle"
       ]_vars

\* Index 0 ("b") has won over index 1 ("a") although the match of "a" lies
\* before the match of "b" in the buffer: it is in before.
C2_Witness ==
    /\ cpc = "idle"
    /\ patterns = <<Text(<<"b">>), Text(<<"a">>)>>
    /\ outcome = Returned(0)
    /\ before = <<"a">>
    /\ after = <<"b">>

\* The caller takes a step out of position pc of its operation.
Leaves(pc) == cpc = pc /\ cpc' # pc

HasEOF(ps) == \E i \in 1..Len(ps) : IsEOF(ps[i])

\* C3: when an expect call whose list holds the EOF marker finds the process
\* exited at its liveness check, it goes to the EOF return and nowhere else,
\* and the EOF return gives the index of the (first) EOF marker of the list,
\* sets before to the whole buffer as it is then, clears the matched text
\* and leaves the buffer empty.
C3_EofDrain ==
    [][/\ (Leaves("e_alive") /\ ~alive /\ HasEOF(patterns))
            => cpc' = "e_eof_lock"
       /\ Leaves("e_eof_lock") => cpc' = "e_eof"
       /\ Leaves("e_eof")
            => /\ cpc' = "idle"
               /\ outcome'.kind = "index"
               /\ outcome'.idx + 1 \in 1..Len(patterns)
               /\ IsEOF(patterns[outcome'.idx + 1])
               /\ \A j \in 1..outcome'.idx : ~IsEOF(patterns[j])
               /\ before' = buffer
               /\ after' = <<>>
               /\ buffer' = <<>>
      ]_vars

\* A call on a dead process has returned the index of EOF, declared after a
\* text pattern, and has handed a non-empty buffer over to before.
C3_Witness ==
    /\ cpc = "idle"
    /\ ~alive
    /\ patterns = <<Text(<<DOT, CR>>), EOF>>
    /\ outcome = Returned(1)
    /\ before # <<>>
    /\ buffer = <<>>

\* C4: when an expect call whose list holds no EOF marker finds the process
\* exited at its liveness check, it fails with EndOfStream and is over: it
\* takes the lock for the snapshot, raises once and is idle, without another
\* pass of the loop and without returning an index.  An index that a call
\* returns is always the index of a text pattern or of an EOF marker that
\* the list holds.
C4_EndOfStream ==
    [][/\ (Leaves("e_alive") /\ ~alive /\ ~HasEOF(patterns))
            => cpc' = "e_eos_lock"
       /\ Leaves("e_eos_lock") => (cpc' = "e_eos" /\ outcome' = Pending)
       /\ Leaves("e_eos")
            => /\ cpc' = "idle"
               /\ outcome' = Ended("EndOfStream")
               /\ ~HasEOF(patterns)
       /\ (outcome'.kind = "index" /\ outcome' # outcome)
            => /\ outcome'.idx + 1 \in 1..Len(patterns)
               /\ \/ IsText(patterns[outcome'.idx + 1])
                  \/ IsEOF(patterns[outcome'.idx + 1])
      ]_vars

\* A call without EOF marker has failed with EndOfStream on a process that
\* exited during the call, after a first pass of the loop.
C4_Witness ==
    /\ cpc = "idle"
    /\ ~alive
    /\ patterns = <<Text(<<"a", "b">>)>>
    /\ outcome = Ended("EndOfStream")
    /\ elapsed = PollInterval + GraceInterval

\* C5: an expect call is on its Timeout path, or has failed with Timeout,
\* only with timeout <= elapsed <= timeout + PollInterval, and it is in a
\* pass of the polling loop only while elapsed < timeout.
C5_TimeoutBounds ==
    /\ (cpc \in {"e_timeout_lock", "e_timeout"}
        \/ (cpc = "idle" /\ outcome = Ended("Timeout")))
            => (timeout <= elapsed /\ elapsed <= timeout + PollInterval)
    /\ cpc \in {"e_alive", "e_scan_lock", "e_scan"} => elapsed < timeout

\* A call on a live process has failed with Timeout after two passes that
\* matched nothing, later than its timeout by less than one poll interval.
C5_Witness ==
    /\ cpc = "idle"
    /\ alive
    /\ patterns = <<Text(<<"a", "b">>)>>
    /\ outcome = Ended("Timeout")
    /\ timeout = 3
    /\ elapsed = 2 * PollInterval

\* The positions of produced at which the echo of sendline(text) starts.
\* (Only sendline writes a line end, so text followed by "\r\n" in the
\* output of the process is such an echo.)
EchoStarts(text) ==
    {i \in 1..Len(produced) :
        /\ i + Len(text) + 1 <= Len(produced)
        /\ SubSeq(produced, i, i + Len(text) + 1) = WithLineEnd(text)}

\* C6: for a text that sendline wrote and the process echoed, a scan pass of
\* expect with that text as pattern finds the match as soon as the reader
\* thread has appended the last character of the text and the text is not
\* consumed yet, however the reader's one-character appends were interleaved
\* with earlier passes of the call.
C6_EchoFound ==
    [][ScanStep =>
        \A text \in SendlineTexts : \A i \in EchoStarts(text) :
            (/\ patterns = <<Text(text)>>
             /\ Len(consumed) < i
             /\ lastAppended >= i + Len(text) - 1)
            => (outcome' = Returned(0) /\ after' = text)
       ]_vars

\* The call that followed sendline("ab") missed in its first pass, before
\* the echo was all there, and has matched "ab" in its second, while the
\* line end of the echo was still on its way to the buffer.
C6_Witness ==
    /\ cpc = "idle"
    /\ produced = WithLineEnd(<<"a", "b">>)
    /\ patterns = <<Text(<<"a", "b">>)>>
    /\ outcome = Returned(0)
    /\ after = <<"a", "b">>
    /\ elapsed = PollInterval
    /\ lastAppended < Len(produced)

\* The caller takes a step of close.
CloseStep ==
    \/ cpc = "idle" /\ cpc' = "c_join"
    \/ Leaves("c_join")
    \/ Leaves("c_proc")

\* C7: once a close has returned (the pty is closed), no step of a further
\* close changes the stop flag of the reader loop, the transport, the
\* buffer, before or the matched text, and the further close ends without
\* an error.
C7_CloseIdempotent ==
    [][(ptyClosed /\ CloseStep)
        => /\ UNCHANGED <<stop_reader, alive, ptyClosed, pipe, buffer, before,
                          after>>
           /\ outcome' \in {Pending, Ended("ok")}
           /\ (cpc' = "idle" => outcome' = Ended("ok"))
      ]_vars

\* A second close, on a session with text left in its buffer, has set the
\* stop flag again, has waited for the reader thread and is at its
\* proc.close().
C7_Witness ==
    /\ cpc = "c_proc"
    /\ ptyClosed
    /\ stop_reader
    /\ buffer # <<>>

\* C8: once close has returned, every later operation on the session fails
\* (with SessionClosed): none of them ends with a match result, an index,
\* and none of them changes the buffer.
C8_ClosedIsTerminal ==
    [][(ptyClosed /\ ~CloseStep /\ cpc' = "idle" /\ outcome' # outcome)
        => (outcome'.kind # "index" /\ buffer' = buffer)
      ]_vars

\* C9: an expect call with an empty pattern list is rejected at once (with
\* InvalidPattern): it never sleeps, and it never ends with Timeout, with
\* EndOfStream or with an index.
C9_EmptyListRejected ==
    patterns = <<>>
        => /\ elapsed = 0
           /\ cpc = "idle"
                => outcome.kind \notin {"Timeout", "EndOfStream", "index"}

\* C10: the text consumed by matches and EOF drains, followed by the buffer,
\* is the output of the process up to the last character appended.
C10_NoGaps ==
    /\ lastAppended <= Len(produced)
    /\ consumed \o buffer = SubSeq(produced, 1, lastAppended)

\* The main thread takes the step that returns from pexpect_tool.
ToolReturns == tpc # "idle" /\ tpc' = "idle"

\* The code of the call is still running when the hard timeout elapses: it
\* never ends by itself, or only later than that.
StillRunningAtDeadline == ~code.ends \/ code.duration > actual_timeout

\* C11: a tool call whose code is still running when the hard timeout
\* elapses returns a response that reports a timeout error, on either
\* strategy and for either kind of code.
C11_HardTimeout ==
    [][(ToolReturns /\ StillRunningAtDeadline)
        => response' \in TimeoutResponses]_vars

\* C12: on the worker strategy a tool call is over when its hard timeout has
\* passed: it is never still in progress later than that, waiting for the
\* worker.
C12_WorkerAbandoned ==
    (~has_sigalrm /\ tpc # "idle") => now <= actual_timeout

\* The positions of expect inside a "with self._lock:" block.
CallerSections == {"e_timeout", "e_eof", "e_eos", "e_scan"}

\* C13: the reader's append and a critical section of expect (scan and cut,
\* snapshot, EOF drain) are never entered at the same time; a thread is in
\* its critical section exactly while it holds the lock, so the lock is
\* held neither at the reader's transport read or liveness check nor at
\* expect's liveness check, nor while expect sleeps; and the buffer, before
\* and the matched text change only in a step of the thread that holds the
\* lock.
C13_MutualExclusion ==
    [][/\ ~(rpc = "r_append" /\ cpc \in CallerSections)
       /\ (lock = "reader") = (rpc = "r_append")
       /\ (lock = "caller") = (cpc \in CallerSections)
       /\ (buffer' # buffer \/ before' # before \/ after' # after)
            => \/ lock = "reader" /\ rpc' # rpc
               \/ lock = "caller" /\ cpc' # cpc
       /\ pipe' # pipe => lock # "reader" \/ rpc' = rpc
       /\ rpc \in {"r_loop", "r_read"} /\ rpc' # rpc => lock # "reader"
       /\ Leaves("e_alive") => lock # "caller"
       /\ elapsed' > elapsed => lock' # "caller"
      ]_vars

\* The reader thread, with a character read, waits for the lock while an
\* expect call holds it for its scan pass.
C13_Witness ==
    /\ rpc = "r_lock"
    /\ rdata # <<>>
    /\ cpc = "e_scan"
    /\ lock = "caller"

\* C14: once the process has exited, an expect call whose list holds a text
\* pattern with a match in the text left in the buffer succeeds on it: it
\* ends neither with EndOfStream nor with the EOF return while a text
\* pattern of its list has a match in the buffer.
C14_ResidualMatch ==
    [][(Leaves("e_eos") \/ Leaves("e_eof"))
        => Satisfied(patterns, buffer) = {}]_vars

\* C15: the reader loop stops by itself (not stopped by close) only when
\* every character the process has written is appended to the buffer:
\* nothing is left unread in the pty.
C15_OutputDrained ==
    (rpc = "r_done" /\ ~stop_reader)
        => (pipe = <<>> /\ lastAppended = Len(produced))

IsMarker(p) == p.kind = "TIMEOUT"

\* The pattern list without its TIMEOUT markers.
WithoutMarker(ps) == SelectSeq(ps, LAMBDA p : ~IsMarker(p))

\* The index (from 1) that the element at index i of ps, not a marker, has
\* in WithoutMarker(ps).
Unmarked(ps, i) == Cardinality({j \in 1..i : ~IsMarker(ps[j])})

\* C16: every step of an expect call does on its list what it does on the
\* list without the TIMEOUT markers, an index returned being shifted by the
\* markers before it: the scan pass returns the same pattern with the same
\* before, matched text and buffer, or misses alike; a dead process leads to
\* the same end path; the EOF return gives the same EOF marker; the deadline
\* fails with Timeout and never returns the index of a TIMEOUT marker.
C16_MarkerNoEffect ==
    [][LET qs == WithoutMarker(patterns)
       IN  /\ ScanStep
                => LET k == FirstMatch(qs, buffer)
                   IN  IF k > 0
                       THEN /\ outcome'.kind = "index"
                            /\ ~IsMarker(patterns[outcome'.idx + 1])
                            /\ Unmarked(patterns, outcome'.idx + 1) = k
                            /\ before' = BeforeOf(qs[k].re, buffer)
                            /\ after' = MatchedOf(qs[k].re, buffer)
                            /\ buffer' = RestOf(qs[k].re, buffer)
                       ELSE /\ outcome' = Pending
                            /\ UNCHANGED <<buffer, before, after>>
           /\ Leaves("e_alive")
                => cpc' = IF alive THEN "e_scan_lock" ELSE EndPath(qs)
           /\ Leaves("e_eof")
                => /\ outcome'.kind = "index"
                   /\ ~IsMarker(patterns[outcome'.idx + 1])
                   /\ Unmarked(patterns, outcome'.idx + 1) = EOFIndex(qs)
                   /\ before' = buffer /\ after' = <<>> /\ buffer' = <<>>
           /\ Leaves("e_eos")
                => (outcome' = Ended("EndOfStream") /\ EOFIndex(qs) = 0)
           /\ Leaves("e_timeout") => outcome' = Ended("Timeout")
      ]_vars

\* A call on a list with the marker between two text patterns has returned
\* index 2, the text pattern after the marker, after a first pass that
\* matched nothing.
C16_Witness ==
    /\ cpc = "idle"
    /\ patterns = <<Text(<<"b">>), TIMEOUT, Text(<<"a">>)>>
    /\ outcome = Returned(2)
    /\ after = <<"a">>
    /\ elapsed = PollInterval

\* C17: once close has returned (the pty is closed), the reader thread
\* appends nothing to the buffer any more.
C17_NoAppendAfterClose ==
    [][ptyClosed => (lastAppended' = lastAppended /\ rpc' # "r_append")]_vars

\* C18: every expect call that has started ends, with one outcome out of an
\* index, Timeout and EndOfStream.
C18_ExpectTerminates ==
    (cpc # "idle")
        ~> (cpc = "idle" /\ outcome.kind \in {"index", "Timeout", "EndOfStream"})

\* A call with the largest timeout has ended with Timeout on a live process
\* that had written a character the reader thread had not read yet.
C18_Witness ==
    /\ cpc = "idle"
    /\ outcome = Ended("Timeout")
    /\ alive
    /\ pipe # <<>>
    /\ timeout = MaxTimeout
    /\ elapsed >= timeout

\* C19: on the interrupt strategy every tool call returns with no alarm
\* pending and with the handler installed that was installed before the
\* call.
C19_AlarmRestored ==
    [][(has_sigalrm /\ ToolReturns)
        => (alarm' = -1 /\ handler' = old_handler)]_vars

\* C20: the default expect timeout that a tool call gives the session is
\* smaller than the hard timeout of the call.
C20_SessionTimeoutBelowHard ==
    pexpect_session # "None" => session_timeout < actual_timeout

\* The positions of the caller inside an expect call.
ExpectPositions ==
    {"e_alive", "e_scan_lock", "e_scan", "e_timeout_lock", "e_timeout",
     "e_eof_lock", "e_eof", "e_eos_lock", "e_eos"}

\* s is the start of t.
IsPrefix(s, t) == Len(s) <= Len(t) /\ SubSeq(t, 1, Len(s)) = s

\* C21: from the entry of an expect call to its failure with Timeout or
\* EndOfStream, no step changes before or the matched text or removes
\* anything from the buffer: every step of the caller that does not return
\* an index, the failing step included, leaves buffer, before and matched
\* text as they are, and what other steps there are during the call only
\* append to the buffer.
C21_FailedCallKeepsState ==
    [][/\ (cpc' # cpc /\ (cpc \in ExpectPositions \/ cpc' \in ExpectPositions)
            /\ outcome'.kind # "index")
            => UNCHANGED <<buffer, before, after, consumed>>
       /\ (cpc' = cpc /\ cpc \in ExpectPositions)
            => /\ UNCHANGED <<before, after, consumed>>
               /\ IsPrefix(buffer, buffer')
       /\ (cpc' = "idle" /\ cpc \in ExpectPositions
            /\ outcome'.kind # "index")
            => outcome'.kind \in {"Timeout", "EndOfStream"}
      ]_vars

\* A call for "ab" has failed with Timeout after at least one pass; before
\* "a" and matched text "b" are still those of the earlier call that cut
\* the echo "ab\r\n", and the line end appended since is in the buffer.
C21_Witness ==
    /\ cpc = "idle"
    /\ outcome = Ended("Timeout")
    /\ patterns = <<Text(<<"a", "b">>)>>
    /\ elapsed >= PollInterval
    /\ before = <<"a">>
    /\ after = <<"b">>
    /\ buffer = <<CR, LF>>
====
